---- MODULE Spec2Model ----
(***************************************************************************)
(* Model of scraper.py: the F1 championship standings scraper.             *)
(*                                                                         *)
(* Text is modelled as a sequence of one-character strings, so that        *)
(* lower-casing, stripping, splitting, digit filtering and substring tests *)
(* are computed character by character, as the Python string methods do.   *)
(* An Optional value is a sequence of length at most one: None is <<>>,    *)
(* and a present value x is <<x>>.                                         *)
(***************************************************************************)
EXTENDS Integers, Sequences, FiniteSets, TLC

VARIABLES
    site,       \* what the standings URL answers during this run
    pc,         \* position of the run (or of the function call under study)
    resp,       \* Optional outcome of requests.get and raise_for_status
    page,       \* the document behind resp.text, as BeautifulSoup sees it
    cols,       \* fetch_standings: the column map of detect_columns
    rowIdx,     \* fetch_standings: index of the next <tr> of tbody (1-based)
    standings,  \* fetch_standings: the list being accumulated
    result,     \* main: the Optional list returned by fetch_standings
    artifact,   \* Optional content of OUTPUT_FILE as written by this run
    exitCode,   \* Optional exit status of the process
    log,        \* the logging calls made so far, as <<level, message>>
    arg,        \* argument of the function call under study
    ret         \* its return value

vars == <<site, pc, resp, page, cols, rowIdx, standings, result, artifact, exitCode, log, arg, ret>>

None == <<>>
Some(x) == <<x>>

\* ---------------------------------------------------------------- bounds
MaxRows == 3        \* <tr> elements in tbody
MaxHeader == 3      \* <th> elements given to detect_columns on its own
MaxLen == 4         \* characters of an argument of clean_int
MaxPad == 1         \* whitespace characters around a name part

\* ------------------------------------------------------------ characters
UpperChars == <<"A","B","C","D","E","F","G","H","I","J","K","L","M",
                "N","O","P","Q","R","S","T","U","V","W","X","Y","Z">>
LowerChars == <<"a","b","c","d","e","f","g","h","i","j","k","l","m",
                "n","o","p","q","r","s","t","u","v","w","x","y","z">>
DecimalChars == <<"0","1","2","3","4","5","6","7","8","9">>

\* U+00B2 SUPERSCRIPT TWO: str.isdigit() is True for it, int() rejects it.
SuperscriptTwo == "sup2"

UpperSet == {UpperChars[i] : i \in 1..Len(UpperChars)}
LowerSet == {LowerChars[i] : i \in 1..Len(LowerChars)}
DecimalSet == {DecimalChars[i] : i \in 1..Len(DecimalChars)}

ToLower == [c \in UpperSet |->
               LowerChars[CHOOSE i \in 1..Len(UpperChars) : UpperChars[i] = c]]
ToUpper == [c \in LowerSet |->
               UpperChars[CHOOSE i \in 1..Len(LowerChars) : LowerChars[i] = c]]
ToValue == [c \in DecimalSet |->
               (CHOOSE i \in 1..Len(DecimalChars) : DecimalChars[i] = c) - 1]

IsUpperChar(c) == c \in UpperSet
IsLowerChar(c) == c \in LowerSet
IsDecimalChar(c) == c \in DecimalSet
IsSpaceChar(c) == c \in {" ", "\t", "\n"}

\* str.isdigit() of one character
IsDigitChar(c) == IsDecimalChar(c) \/ c = SuperscriptTwo

LowerChar(c) == IF IsUpperChar(c) THEN ToLower[c] ELSE c

UpperChar(c) == IF IsLowerChar(c) THEN ToUpper[c] ELSE c

DigitValue(c) == ToValue[c]

\* --------------------------------------------------------- str methods
\* str.lower()
StrLower(s) == [i \in 1..Len(s) |-> LowerChar(s[i])]

\* str.upper()
StrUpper(s) == [i \in 1..Len(s) |-> UpperChar(s[i])]

\* str.strip()
StrStrip(s) ==
    LET keep == {i \in 1..Len(s) : ~IsSpaceChar(s[i])}
    IN  IF keep = {} THEN <<>>
        ELSE LET lo == CHOOSE i \in keep : \A j \in keep : i <= j
                 hi == CHOOSE i \in keep : \A j \in keep : j <= i
             IN  SubSeq(s, lo, hi)

\* str.isupper(): some cased character, and no lower-case one
StrIsUpper(s) ==
    /\ \E i \in 1..Len(s) : IsUpperChar(s[i])
    /\ \A i \in 1..Len(s) : ~IsLowerChar(s[i])

\* sub in s
Contains(sub, s) ==
    \E i \in 0..(Len(s) - Len(sub)) : SubSeq(s, i + 1, i + Len(sub)) = sub

\* str.split(): the maximal runs of non-whitespace characters
RECURSIVE SplitFrom(_, _, _)
SplitFrom(s, i, cur) ==
    IF i > Len(s)
    THEN IF cur = <<>> THEN <<>> ELSE <<cur>>
    ELSE IF IsSpaceChar(s[i])
         THEN (IF cur = <<>> THEN <<>> ELSE <<cur>>) \o SplitFrom(s, i + 1, <<>>)
         ELSE SplitFrom(s, i + 1, Append(cur, s[i]))

StrSplit(s) == SplitFrom(s, 1, <<>>)

\* " ".join(parts)
RECURSIVE JoinSpace(_)
JoinSpace(parts) ==
    IF parts = <<>> THEN <<>>
    ELSE IF Len(parts) = 1 THEN parts[1]
         ELSE parts[1] \o <<" ">> \o JoinSpace(Tail(parts))

\* int(digits) for a non-empty string of decimal digits
RECURSIVE ParseDecimal(_)
ParseDecimal(digits) ==
    IF digits = <<>> THEN 0
    ELSE 10 * ParseDecimal(SubSeq(digits, 1, Len(digits) - 1))
         + DigitValue(digits[Len(digits)])

\* str(n) for an int n >= 0
RECURSIVE IntToStr(_)
IntToStr(n) ==
    IF n < 10 THEN <<DecimalChars[n + 1]>>
    ELSE Append(IntToStr(n \div 10), DecimalChars[(n % 10) + 1])

\* ---------------------------------------------------------------- roster
DRIVER_ROSTER == <<
    [first |-> <<"P","i","e","r","r","e">>, last |-> <<"G","a","s","l","y">>,
     number |-> 10, team |-> "Alpine", car |-> "Alpine A526"],
    [first |-> <<"F","r","a","n","c","o">>, last |-> <<"C","o","l","a","p","i","n","t","o">>,
     number |-> 43, team |-> "Alpine", car |-> "Alpine A526"],
    [first |-> <<"F","e","r","n","a","n","d","o">>, last |-> <<"A","l","o","n","s","o">>,
     number |-> 14, team |-> "Aston Martin", car |-> "Aston Martin AMR26"],
    [first |-> <<"L","a","n","c","e">>, last |-> <<"S","t","r","o","l","l">>,
     number |-> 18, team |-> "Aston Martin", car |-> "Aston Martin AMR26"],
    [first |-> <<"N","i","c","o">>, last |-> <<"H","u","l","k","e","n","b","e","r","g">>,
     number |-> 27, team |-> "Audi", car |-> "Audi R26"],
    [first |-> <<"G","a","b","r","i","e","l">>, last |-> <<"B","o","r","t","o","l","e","t","o">>,
     number |-> 5, team |-> "Audi", car |-> "Audi R26"],
    [first |-> <<"S","e","r","g","i","o">>, last |-> <<"P","e","r","e","z">>,
     number |-> 11, team |-> "Cadillac", car |-> "Cadillac"],
    [first |-> <<"V","a","l","t","t","e","r","i">>, last |-> <<"B","o","t","t","a","s">>,
     number |-> 77, team |-> "Cadillac", car |-> "Cadillac"],
    [first |-> <<"C","h","a","r","l","e","s">>, last |-> <<"L","e","c","l","e","r","c">>,
     number |-> 16, team |-> "Ferrari", car |-> "Ferrari SF-26"],
    [first |-> <<"L","e","w","i","s">>, last |-> <<"H","a","m","i","l","t","o","n">>,
     number |-> 44, team |-> "Ferrari", car |-> "Ferrari SF-26"],
    [first |-> <<"E","s","t","e","b","a","n">>, last |-> <<"O","c","o","n">>,
     number |-> 31, team |-> "Haas F1 Team", car |-> "Haas VF-26"],
    [first |-> <<"O","l","i","v","e","r">>, last |-> <<"B","e","a","r","m","a","n">>,
     number |-> 87, team |-> "Haas F1 Team", car |-> "Haas VF-26"],
    [first |-> <<"L","a","n","d","o">>, last |-> <<"N","o","r","r","i","s">>,
     number |-> 4, team |-> "McLaren", car |-> "McLaren MCL40"],
    [first |-> <<"O","s","c","a","r">>, last |-> <<"P","i","a","s","t","r","i">>,
     number |-> 81, team |-> "McLaren", car |-> "McLaren MCL40"],
    [first |-> <<"G","e","o","r","g","e">>, last |-> <<"R","u","s","s","e","l","l">>,
     number |-> 63, team |-> "Mercedes", car |-> "Mercedes W17"],
    [first |-> <<"K","i","m","i">>, last |-> <<"A","n","t","o","n","e","l","l","i">>,
     number |-> 12, team |-> "Mercedes", car |-> "Mercedes W17"],
    [first |-> <<"L","i","a","m">>, last |-> <<"L","a","w","s","o","n">>,
     number |-> 30, team |-> "Racing Bulls", car |-> "Racing Bulls VCARB 03"],
    [first |-> <<"A","r","v","i","d">>, last |-> <<"L","i","n","d","b","l","a","d">>,
     number |-> 6, team |-> "Racing Bulls", car |-> "Racing Bulls VCARB 03"],
    [first |-> <<"M","a","x">>, last |-> <<"V","e","r","s","t","a","p","p","e","n">>,
     number |-> 1, team |-> "Red Bull Racing", car |-> "Red Bull RB22"],
    [first |-> <<"I","s","a","c","k">>, last |-> <<"H","a","d","j","a","r">>,
     number |-> 22, team |-> "Red Bull Racing", car |-> "Red Bull RB22"],
    [first |-> <<"C","a","r","l","o","s">>, last |-> <<"S","a","i","n","z">>,
     number |-> 55, team |-> "Williams", car |-> "Williams FW48"],
    [first |-> <<"A","l","e","x","a","n","d","e","r">>, last |-> <<"A","l","b","o","n">>,
     number |-> 23, team |-> "Williams", car |-> "Williams FW48"]
>>

\* f"{d['first'].lower()} {d['last'].lower()}"
RosterKey(d) == StrLower(d.first) \o <<" ">> \o StrLower(d.last)

RosterKeys == [i \in 1..Len(DRIVER_ROSTER) |-> RosterKey(DRIVER_ROSTER[i])]

\* _ROSTER_BY_NAME.get(key): a dict comprehension keeps the last entry of a key
ROSTER_BY_NAME(key) ==
    LET hits == {i \in 1..Len(DRIVER_ROSTER) : RosterKeys[i] = key}
    IN  IF hits = {} THEN None
        ELSE Some(DRIVER_ROSTER[CHOOSE i \in hits : \A j \in hits : j <= i])

\* --------------------------------------------------------------- helpers
\* clean_int: [raised |-> TRUE] stands for the ValueError of int(digits)
clean_int(text) ==
    LET digits == SelectSeq(text, IsDigitChar)
    IN  IF digits = <<>> THEN [raised |-> FALSE, value |-> 0]
        ELSE IF \A i \in 1..Len(digits) : IsDecimalChar(digits[i])
             THEN [raised |-> FALSE, value |-> ParseDecimal(digits)]
             ELSE [raised |-> TRUE, value |-> 0]

\* lookup_driver without the strip() of the name parts
lookup_driver_unstripped(first, last) ==
    ROSTER_BY_NAME(StrLower(first) \o <<" ">> \o StrLower(last))

\* lookup_driver (lines 94-97)
lookup_driver(first, last) ==
    ROSTER_BY_NAME(StrLower(StrStrip(first)) \o <<" ">> \o StrLower(StrStrip(last)))

\* cols[k] = i, on a dict held as a function
DictSet(d, k, i) == [x \in (DOMAIN d) \cup {k} |-> IF x = k THEN i ELSE d[x]]

EmptyDict == [x \in {} |-> 0]

\* the chain with the test for "pole" moved ahead of the test for "pos"
ColumnOfPoleFirst(text) ==
    IF Contains(<<"p","o","l","e">>, text) THEN Some("poles")
    ELSE IF Contains(<<"p","o","s">>, text) THEN Some("pos")
    ELSE IF Contains(<<"d","r","i","v","e","r">>, text) THEN Some("driver")
    ELSE IF Contains(<<"n","a","t","i","o","n">>, text) THEN Some("nationality")
    ELSE IF \/ Contains(<<"t","e","a","m">>, text)
            \/ Contains(<<"c","o","n","s","t","r","u","c","t","o","r">>, text)
         THEN Some("team")
    ELSE IF \/ Contains(<<"p","t","s">>, text)
            \/ Contains(<<"p","o","i","n","t">>, text)
         THEN Some("pts")
    ELSE IF Contains(<<"w","i","n">>, text) THEN Some("wins")
    ELSE None

\* the if / elif chain of detect_columns (lines 108-121) on one lower-cased label
ColumnOf(text) ==
    IF Contains(<<"p","o","s">>, text) THEN Some("pos")
    ELSE IF Contains(<<"d","r","i","v","e","r">>, text) THEN Some("driver")
    ELSE IF Contains(<<"n","a","t","i","o","n">>, text) THEN Some("nationality")
    ELSE IF \/ Contains(<<"t","e","a","m">>, text)
            \/ Contains(<<"c","o","n","s","t","r","u","c","t","o","r">>, text)
         THEN Some("team")
    ELSE IF \/ Contains(<<"p","t","s">>, text)
            \/ Contains(<<"p","o","i","n","t">>, text)
         THEN Some("pts")
    ELSE IF Contains(<<"w","i","n">>, text) THEN Some("wins")
    ELSE IF Contains(<<"p","o","l","e">>, text) THEN Some("poles")
    ELSE None

\* th.get_text(strip=True).lower()
HeaderText(th) == StrLower(StrStrip(th))

RECURSIVE DetectFrom(_, _, _)
DetectFrom(header_row, i, d) ==
    IF i > Len(header_row) THEN d
    ELSE LET c == ColumnOf(HeaderText(header_row[i]))
         IN  DetectFrom(header_row, i + 1,
                        IF c = None THEN d ELSE DictSet(d, c[1], i - 1))

\* detect_columns: semantic column name -> 0-based index
detect_columns(header_row) == DetectFrom(header_row, 1, EmptyDict)

\* ------------------------------------------------------- row interpreter
\* A table cell: text is cell.get_text(separator=" ", strip=True); parts are
\* el.get_text(strip=True) of its nested span / p / div elements, in order.
Flat(text) == [text |-> text, parts |-> <<>>]
Nested(text, parts) == [text |-> text, parts |-> parts]

\* cell_text (lines 184-188)
cell_text(c, cells, col_name) ==
    IF col_name \notin DOMAIN c THEN <<>>
    ELSE IF c[col_name] >= Len(cells) THEN <<>>
    ELSE cells[c[col_name] + 1].text

NonEmptyText(p) == p # <<>>
NotAbbreviation(p) == ~(StrIsUpper(p) /\ Len(p) = 3)

\* first_name, last_name (lines 195-212)
ExtractName(c, cells) ==
    LET driver_cell_idx == IF "driver" \in DOMAIN c THEN c["driver"] ELSE 0
    IN  IF driver_cell_idx < Len(cells)
        THEN LET driver_cell == cells[driver_cell_idx + 1]
                 name_parts == SelectSeq(SelectSeq(driver_cell.parts, NonEmptyText),
                                         NotAbbreviation)
                 parts == StrSplit(driver_cell.text)
             IN  IF Len(name_parts) >= 2
                 THEN [first |-> name_parts[1], last |-> name_parts[2]]
                 ELSE [first |-> IF parts # <<>> THEN parts[1] ELSE <<>>,
                       last  |-> IF Len(parts) > 1 THEN JoinSpace(Tail(parts)) ELSE <<>>]
        ELSE [first |-> <<>>, last |-> <<>>]

\* f"{first_name} {last_name}".strip()
FullName(n) == StrStrip(n.first \o <<" ">> \o n.last)

Odds == [bet365 |-> "0", sportsbet |-> "0", dabble |-> "0"]

\* the dict with "car" read from the roster entry's team
MakeRecordCarFromTeam(place, entry, full_name, poles, wins, points) ==
    [place  |-> place,
     number |-> entry.number,
     team   |-> entry.team,
     name   |-> full_name,
     car    |-> entry.team,
     poles  |-> poles,
     wins   |-> wins,
     points |-> points,
     odds   |-> Odds]

\* the dict appended at lines 227-237
MakeRecord(place, entry, full_name, poles, wins, points) ==
    [place  |-> place,
     number |-> entry.number,
     team   |-> entry.team,
     name   |-> full_name,
     car    |-> entry.car,
     poles  |-> poles,
     wins   |-> wins,
     points |-> points,
     odds   |-> Odds]

\* Lines 191-237, for a row of two or more cells:
\*   "raise"   int() failed;       "skip"  the driver is not in the roster;
\*   "append"  rec is appended to standings.
InterpretCells(c, cells) ==
    LET place  == clean_int(cell_text(c, cells, "pos"))
        n      == ExtractName(c, cells)
        roster_entry == lookup_driver(n.first, n.last)
        points == clean_int(cell_text(c, cells, "pts"))
        wins   == clean_int(cell_text(c, cells, "wins"))
        poles  == clean_int(cell_text(c, cells, "poles"))
    IN  IF place.raised THEN [kind |-> "raise", rec |-> None]
        ELSE IF roster_entry = None THEN [kind |-> "skip", rec |-> None]
        ELSE IF points.raised \/ wins.raised \/ poles.raised
             THEN [kind |-> "raise", rec |-> None]
        ELSE [kind |-> "append",
              rec  |-> Some(MakeRecord(place.value, roster_entry[1], FullName(n),
                                       poles.value, wins.value, points.value))]

\* the loop body with the single-cell row skipped like a row without cells
InterpretRowKeepGoing(c, cells) ==
    IF Len(cells) <= 1 THEN [kind |-> "continue", rec |-> None]
    ELSE InterpretCells(c, cells)

\* One pass of the loop body (lines 175-237) over the cells of one <tr>:
\*   "continue"  no cells;      "return"  the single-cell placeholder;
\*   otherwise as InterpretCells.
InterpretRow(c, cells) ==
    IF Len(cells) = 0 THEN [kind |-> "continue", rec |-> None]
    ELSE IF Len(cells) = 1 THEN [kind |-> "return", rec |-> None]
    ELSE InterpretCells(c, cells)

\* required - cols.keys() (lines 167-168)
Required == {"pos", "driver", "pts"}
MissingColumns(c) == Required \ DOMAIN c

\* the fallback with "place" left at the 0-based index of enumerate
build_preseason_zero_based ==
    [i \in 1..Len(DRIVER_ROSTER) |->
        [place  |-> i - 1,
         number |-> DRIVER_ROSTER[i].number,
         team   |-> DRIVER_ROSTER[i].team,
         name   |-> DRIVER_ROSTER[i].first \o <<" ">> \o DRIVER_ROSTER[i].last,
         car    |-> DRIVER_ROSTER[i].car,
         poles  |-> 0,
         wins   |-> 0,
         points |-> 0,
         odds   |-> Odds]]

\* build_preseason_standings (lines 243-262)
build_preseason_standings ==
    [i \in 1..Len(DRIVER_ROSTER) |->
        [place  |-> i,
         number |-> DRIVER_ROSTER[i].number,
         team   |-> DRIVER_ROSTER[i].team,
         name   |-> DRIVER_ROSTER[i].first \o <<" ">> \o DRIVER_ROSTER[i].last,
         car    |-> DRIVER_ROSTER[i].car,
         poles  |-> 0,
         wins   |-> 0,
         points |-> 0,
         odds   |-> Odds]]

\* ------------------------------------------------------------ the inputs
\* Sequences over S of length at most n
SeqUpTo(S, n) == UNION {[1..k -> S] : k \in 0..n}

HeaderA == << <<"P","o","s">>, <<"D","r","i","v","e","r">>,
              <<"N","a","t","i","o","n","a","l","i","t","y">>,
              <<"T","e","a","m">>, <<"P","t","s">> >>
HeaderB == << <<"P","O","I","N","T","S">>, <<"D","r","i","v","e","r">>,
              <<" ","p","o","s"," ">>, <<"W","i","n","s">>, <<"P","o","l","e","s">> >>
HeaderNoPts == << <<"P","o","s">>, <<"D","r","i","v","e","r">>,
                  <<"N","a","t","i","o","n","a","l","i","t","y">>, <<"T","e","a","m">> >>
HeaderNoPos == << <<"D","r","i","v","e","r">>, <<"T","e","a","m">>, <<"P","t","s">> >>
HeaderNoDriver == << <<"P","o","s">>, <<"C","o","n","s","t","r","u","c","t","o","r">>,
                     <<"P","t","s">> >>
HeaderEmpty == << >>

Headers == {HeaderA, HeaderB, HeaderNoPts, HeaderNoPos, HeaderNoDriver, HeaderEmpty}

CellNED == Flat(<<"N","E","D">>)
CellRedBull == Flat(<<"R","e","d"," ","B","u","l","l"," ","R","a","c","i","n","g">>)
CellMcLaren == Flat(<<"M","c","L","a","r","e","n">>)

\* scenario A of the specification
RowMax == << Flat(<<"1">>),
             Flat(<<"M","a","x"," ","V","e","r","s","t","a","p","p","e","n">>),
             CellNED, CellRedBull, Flat(<<"2","5">>) >>
\* first and last name in nested elements, next to the 3-letter abbreviation
RowLando == << Flat(<<"P","3",".">>),
               Nested(<<"L","a","n","d","o"," ","N","o","r","r","i","s"," ","N","O","R">>,
                      << <<"L","a","n","d","o">>, <<"N","o","r","r","i","s">>,
                         <<"N","O","R">> >>),
               Flat(<<"N","O","R">>), CellMcLaren, Flat(<<"1","8">>) >>
\* the driver of RowMax once more, in another letter case, in a row shorter
\* than the header
RowMaxAgain == << Flat(<<"2">>),
                  Flat(<<"M","A","X"," ","V","E","R","S","T","A","P","P","E","N">>) >>
\* a driver the roster does not know
RowUnknown == << Flat(<<"2">>), Flat(<<"F","o","o"," ","B","a","r">>),
                 CellNED, CellMcLaren, Flat(<<"1","8">>) >>
\* the same, with a position cell that holds a superscript digit
RowUnknownSup == << Flat(<<SuperscriptTwo>>), Flat(<<"F","o","o"," ","B","a","r">>),
                    CellNED, CellMcLaren, Flat(<<"1","8">>) >>
\* a <tr> without cells
RowNoCells == << >>
\* the "no results" row: one cell spanning the table
RowPlaceholder == << Flat(<<"N","o"," ","r","e","s","u","l","t","s"," ",
                            "a","v","a","i","l","a","b","l","e">>) >>

RowPool == {RowMax, RowLando, RowMaxAgain, RowUnknown, RowUnknownSup, RowNoCells,
            RowPlaceholder}

Bodies == SeqUpTo(RowPool, MaxRows)

MakePage(table, thead, tbody, header_row, header, rows) ==
    [table |-> table, thead |-> thead, tbody |-> tbody,
     header_row |-> header_row, header |-> header, rows |-> rows]

\* The documents a response can hold: without a table; a table lacking thead
\* or tbody; a thead without a row; a table with a header row and a body.
Pages ==
    {MakePage(FALSE, FALSE, FALSE, FALSE, <<>>, <<>>)}
    \cup {MakePage(TRUE, FALSE, TRUE, FALSE, <<>>, b) : b \in Bodies}
    \cup {MakePage(TRUE, TRUE, FALSE, TRUE, h, <<>>) : h \in Headers}
    \cup {MakePage(TRUE, TRUE, TRUE, FALSE, <<>>, b) : b \in Bodies}
    \cup {MakePage(TRUE, TRUE, TRUE, TRUE, h, b) : h \in Headers, b \in Bodies}

\* requests.get(...) and resp.raise_for_status() (lines 137-138)
FetchOutcomes == {"ok", "connection_error", "timeout", "http_404", "http_500"}

\* The answers of the site: a failure, or a response holding a document
Sites ==
    {[outcome |-> o, doc |-> None] : o \in FetchOutcomes \ {"ok"}}
    \cup {[outcome |-> "ok", doc |-> Some(p)] : p \in Pages}

\* ------------------------------------------------------------ the run
Logged(level, message) == Append(log, <<level, message>>)

callVars == <<arg, ret>>

Init ==
    /\ site \in Sites
    /\ pc = "FETCH"
    /\ resp = None
    /\ page = None
    /\ cols = EmptyDict
    /\ rowIdx = 1
    /\ standings = <<>>
    /\ result = None
    /\ artifact = None
    /\ exitCode = None
    /\ log = <<>>
    /\ arg = None
    /\ ret = None

\* fetch_standings, lines 135-141: the request fails or answers an error status
FetchFails ==
    /\ pc = "FETCH"
    /\ site.outcome # "ok"
    /\ resp' = Some(site.outcome)
    /\ log' = Append(Logged("INFO", "fetching"), <<"ERROR", "http_error">>)
    /\ result' = None
    /\ pc' = "RETURNED"
    /\ UNCHANGED <<site, page, cols, rowIdx, standings, artifact, exitCode, callVars>>

\* fetch_standings, lines 135-143: the response arrives and is parsed
FetchOk ==
    /\ pc = "FETCH"
    /\ site.outcome = "ok"
    /\ resp' = Some("ok")
    /\ page' = site.doc
    /\ log' = Logged("INFO", "fetching")
    /\ pc' = "PARSE"
    /\ UNCHANGED <<site, cols, rowIdx, standings, result, artifact, exitCode, callVars>>

\* the early returns of lines 147-161
StructureError(p) ==
    IF ~p.table THEN Some("no_table")
    ELSE IF ~p.thead \/ ~p.tbody THEN Some("no_thead_or_tbody")
    ELSE IF ~p.header_row THEN Some("no_header_row")
    ELSE None

\* fetch_standings, lines 147-171
Parse ==
    /\ pc = "PARSE"
    /\ LET p == page[1]
           e == StructureError(p)
           c == detect_columns(p.header)
       IN  IF e # None
           THEN /\ log' = Logged("ERROR", e[1])
                /\ result' = None
                /\ pc' = "RETURNED"
                /\ UNCHANGED cols
           ELSE IF MissingColumns(c) # {}
           THEN /\ log' = Append(Logged("INFO", "detected_columns"),
                                 <<"ERROR", "required_columns_not_found">>)
                /\ cols' = c
                /\ result' = None
                /\ pc' = "RETURNED"
           ELSE /\ log' = Logged("INFO", "detected_columns")
                /\ cols' = c
                /\ pc' = "ROWS"
                /\ UNCHANGED result
    /\ UNCHANGED <<site, resp, page, rowIdx, standings, artifact, exitCode, callVars>>

\* the record put at the head of the list
PrependRecord(list, rec) == <<rec>> \o list

\* standings after one row of kind "append" (line 227)
AppendRecord(list, rec) == Append(list, rec)

\* fetch_standings, lines 174-237: one iteration of the loop over tbody's rows
Row ==
    /\ pc = "ROWS"
    /\ rowIdx <= Len(page[1].rows)
    /\ LET r == InterpretRow(cols, page[1].rows[rowIdx])
       IN  CASE r.kind = "continue" ->
                  /\ rowIdx' = rowIdx + 1
                  /\ UNCHANGED <<pc, standings, result, exitCode, log>>
             [] r.kind = "return" ->
                  /\ log' = Logged("INFO", "table_is_empty")
                  /\ result' = Some(<<>>)
                  /\ pc' = "RETURNED"
                  /\ UNCHANGED <<rowIdx, standings, exitCode>>
             [] r.kind = "raise" ->
                  /\ log' = Logged("ERROR", "uncaught_ValueError")
                  /\ exitCode' = Some(1)
                  /\ pc' = "CRASHED"
                  /\ UNCHANGED <<rowIdx, standings, result>>
             [] r.kind = "skip" ->
                  /\ log' = Logged("WARNING", "driver_not_found")
                  /\ rowIdx' = rowIdx + 1
                  /\ UNCHANGED <<pc, standings, result, exitCode>>
             [] r.kind = "append" ->
                  /\ standings' = AppendRecord(standings, r.rec[1])
                  /\ rowIdx' = rowIdx + 1
                  /\ UNCHANGED <<pc, result, exitCode, log>>
    /\ UNCHANGED <<site, resp, page, cols, artifact, callVars>>

\* fetch_standings, lines 239-240: the loop is over
RowsDone ==
    /\ pc = "ROWS"
    /\ rowIdx > Len(page[1].rows)
    /\ log' = Logged("INFO", "parsed_drivers")
    /\ result' = Some(standings)
    /\ pc' = "RETURNED"
    /\ UNCHANGED <<site, resp, page, cols, rowIdx, standings, artifact, exitCode, callVars>>

\* main testing "not standings": None is taken for the empty list
MainBranchConflated(res) ==
    IF res = None THEN "FALLBACK"
    ELSE IF Len(res[1]) = 0 THEN "FALLBACK"
    ELSE "SERIALIZE"

\* main without the test of line 282: the empty list is written as it is
MainBranchNoFallback(res) ==
    IF res = None THEN "FAILED"
    ELSE "SERIALIZE"

\* main, lines 278-284: where the run goes once fetch_standings has returned
MainBranch(res) ==
    IF res = None THEN "FAILED"
    ELSE IF Len(res[1]) = 0 THEN "FALLBACK"
    ELSE "SERIALIZE"

\* main, lines 278-280
MainAbort ==
    /\ pc = "RETURNED"
    /\ MainBranch(result) = "FAILED"
    /\ log' = Logged("ERROR", "could_not_fetch")
    /\ exitCode' = Some(1)
    /\ pc' = "FAILED"
    /\ UNCHANGED <<site, resp, page, cols, rowIdx, standings, result, artifact, callVars>>

\* main, line 282: the list is empty
MainEmpty ==
    /\ pc = "RETURNED"
    /\ MainBranch(result) = "FALLBACK"
    /\ pc' = "FALLBACK"
    /\ UNCHANGED <<site, resp, page, cols, rowIdx, standings, result, artifact, exitCode, log,
                   callVars>>

\* main, line 284
Fallback ==
    /\ pc = "FALLBACK"
    /\ log' = Logged("INFO", "building_preseason")
    /\ result' = Some(build_preseason_standings)
    /\ pc' = "SERIALIZE"
    /\ UNCHANGED <<site, resp, page, cols, rowIdx, standings, artifact, exitCode, callVars>>

\* main, line 282 with a non-empty list
MainLive ==
    /\ pc = "RETURNED"
    /\ MainBranch(result) = "SERIALIZE"
    /\ pc' = "SERIALIZE"
    /\ UNCHANGED <<site, resp, page, cols, rowIdx, standings, result, artifact, exitCode, log,
                   callVars>>

\* what json.dump writes for data (lines 267-270)
save_json(data) == Some(data)

\* main, lines 286-287
Serialize ==
    /\ pc = "SERIALIZE"
    /\ artifact' = save_json(result[1])
    /\ log' = Append(Logged("INFO", "saved_entries"), <<"INFO", "done">>)
    /\ exitCode' = Some(0)
    /\ pc' = "DONE"
    /\ UNCHANGED <<site, resp, page, cols, rowIdx, standings, result, callVars>>

Next ==
    \/ FetchFails
    \/ FetchOk
    \/ Parse
    \/ Row
    \/ RowsDone
    \/ MainAbort
    \/ MainEmpty
    \/ Fallback
    \/ MainLive
    \/ Serialize

Spec == Init /\ [][Next]_vars

\* ------------------------------------------- the helpers, called on their own
runVars == <<site, resp, page, cols, rowIdx, standings, result, artifact, exitCode, log>>

Idle ==
    /\ site = None
    /\ resp = None
    /\ page = None
    /\ cols = EmptyDict
    /\ rowIdx = 1
    /\ standings = <<>>
    /\ result = None
    /\ artifact = None
    /\ exitCode = None
    /\ log = <<>>

\* clean_int(x), then clean_int(str(clean_int(x))); arg and ret list the calls
IntChars == {"P", "0", "1", "2", ".", SuperscriptTwo}

InitInt ==
    /\ Idle
    /\ pc = "clean_int"
    /\ \E x \in SeqUpTo(IntChars, MaxLen) : arg = <<x>>
    /\ ret = <<>>

CallCleanInt ==
    /\ pc = "clean_int"
    /\ ret' = <<clean_int(arg[1])>>
    /\ pc' = IF clean_int(arg[1]).raised THEN "clean_int_raised" ELSE "clean_int_returned"
    /\ UNCHANGED <<arg, runVars>>

CallCleanIntAgain ==
    /\ pc = "clean_int_returned"
    /\ arg' = Append(arg, IntToStr(ret[1].value))
    /\ ret' = Append(ret, clean_int(IntToStr(ret[1].value)))
    /\ pc' = "clean_int_again"
    /\ UNCHANGED runVars

NextInt == CallCleanInt \/ CallCleanIntAgain

SpecInt == InitInt /\ [][NextInt]_vars

\* lookup_driver(first, last): the name parts of roster entries i and j, each
\* in some letter case and padded with whitespace, or changed in its letters
CaseVariants(s) == {s, StrLower(s), StrUpper(s)}

Pads == SeqUpTo({" "}, MaxPad)

NameVariants(s) == {l \o v \o r : l \in Pads, v \in CaseVariants(s), r \in Pads}

OtherNames(s) == {<<>>, Append(s, "x"), <<s[1], " ">> \o Tail(s)}

InitLookup ==
    /\ Idle
    /\ pc = "lookup_driver"
    /\ \E i \in 1..Len(DRIVER_ROSTER) :
       \E j \in {i, (i % Len(DRIVER_ROSTER)) + 1} :
       \E f \in NameVariants(DRIVER_ROSTER[i].first) \cup OtherNames(DRIVER_ROSTER[i].first) :
       \E l \in NameVariants(DRIVER_ROSTER[j].last) \cup OtherNames(DRIVER_ROSTER[j].last) :
          arg = [i |-> i, j |-> j, first |-> f, last |-> l]
    /\ ret = None

CallLookup ==
    /\ pc = "lookup_driver"
    /\ ret' = lookup_driver(arg.first, arg.last)
    /\ pc' = "lookup_driver_returned"
    /\ UNCHANGED <<arg, runVars>>

NextLookup == CallLookup

SpecLookup == InitLookup /\ [][NextLookup]_vars

\* detect_columns(header_row) on header rows of up to MaxHeader labels
HeaderLabels ==
    { <<"P","o","s">>, <<"D","r","i","v","e","r">>,
      <<"N","a","t","i","o","n","a","l","i","t","y">>,
      <<"T","e","a","m">>, <<"C","o","n","s","t","r","u","c","t","o","r">>,
      <<"P","t","s">>, <<"P","O","I","N","T","S">>,
      <<"W","i","n","s">>, <<"P","o","l","e","s">>,
      <<"P","o","l","e"," ","P","o","s","i","t","i","o","n","s">>,
      <<"T","e","a","m"," ","P","o","i","n","t","s">>,
      <<"C","a","r">> }

InitCols ==
    /\ Idle
    /\ pc = "detect_columns"
    /\ arg \in SeqUpTo(HeaderLabels, MaxHeader)
    /\ ret = EmptyDict

CallDetectColumns ==
    /\ pc = "detect_columns"
    /\ ret' = detect_columns(arg)
    /\ pc' = "detect_columns_returned"
    /\ UNCHANGED <<arg, runVars>>

NextCols == CallDetectColumns

SpecCols == InitCols /\ [][NextCols]_vars

\* ================================================================ claims
\* The semantic fields in the priority order of the header test, and the
\* keywords of each, as the specification lists them.
Fields == <<"pos", "driver", "nationality", "team", "pts", "wins", "poles">>

FieldSet == {Fields[i] : i \in 1..Len(Fields)}

Keywords(f) ==
    CASE f = "pos" -> { <<"p","o","s">> }
      [] f = "driver" -> { <<"d","r","i","v","e","r">> }
      [] f = "nationality" -> { <<"n","a","t","i","o","n">> }
      [] f = "team" -> { <<"t","e","a","m">>,
                         <<"c","o","n","s","t","r","u","c","t","o","r">> }
      [] f = "pts" -> { <<"p","t","s">>, <<"p","o","i","n","t">> }
      [] f = "wins" -> { <<"w","i","n">> }
      [] f = "poles" -> { <<"p","o","l","e">> }

\* the fields, by their place in the priority order, of which the label
\* holds a keyword, letter case aside
Mentioned(label) ==
    LET text == StrLower(label)
    IN  {n \in 1..Len(Fields) : \E k \in Keywords(Fields[n]) : Contains(k, text)}

Mentions(label, f) == \E n \in Mentioned(label) : Fields[n] = f

\* f is the first field, in priority order, that the label mentions
FirstMentions(label, f) ==
    LET ms == Mentioned(label)
    IN  \E n \in ms : Fields[n] = f /\ \A m \in ms : n <= m

MentionedFields(header) ==
    UNION {{Fields[n] : n \in Mentioned(header[i])} : i \in 1..Len(header)}

DetectedFields(header) ==
    UNION {LET ms == Mentioned(header[i])
           IN  {Fields[n] : n \in {n \in ms : \A m \in ms : n <= m}}
           : i \in 1..Len(header)}

\* ----- what a page makes of a run, read off the page alone
StructureOk(p) == p.table /\ p.thead /\ p.tbody /\ p.header_row

ReachesRows(p) ==
    StructureOk(p) /\ {"pos", "driver", "pts"} \subseteq DetectedFields(p.header)

PageCols(p) == detect_columns(p.header)

RowEntry(c, cells) ==
    LET n == ExtractName(c, cells) IN lookup_driver(n.first, n.last)

RowMatched(c, cells) == Len(cells) >= 2 /\ RowEntry(c, cells) # None

RowUnmatched(c, cells) == Len(cells) >= 2 /\ RowEntry(c, cells) = None

RowRaises(c, cells) ==
    /\ Len(cells) >= 2
    /\ \/ clean_int(cell_text(c, cells, "pos")).raised
       \/ /\ \E col \in {"pts", "wins", "poles"} : clean_int(cell_text(c, cells, col)).raised
          /\ RowMatched(c, cells)

\* What the rows of a page that reaches them come to:
\*   first        the first row at which the loop ends before the end of the
\*                body (a single cell, or a ValueError), or Len(rows) + 1;
\*   placeholder  that row is a single cell;   crashes  it raises;
\*   matched      the rows before it whose driver is in the roster.
Rows(p) ==
    LET c == PageCols(p)
        stops == {k \in 1..Len(p.rows) : Len(p.rows[k]) = 1 \/ RowRaises(c, p.rows[k])}
        first == IF stops = {} THEN Len(p.rows) + 1
                 ELSE CHOOSE k \in stops : \A j \in stops : k <= j
    IN  [first       |-> first,
         placeholder |-> stops # {} /\ Len(p.rows[first]) = 1,
         crashes     |-> stops # {} /\ Len(p.rows[first]) # 1,
         matched     |-> {j \in 1..(first - 1) : RowMatched(c, p.rows[j])}]

FirstStop(p) == Rows(p).first

PlaceholderMet(p) == ReachesRows(p) /\ Rows(p).placeholder

YieldsZero(p) ==
    /\ ReachesRows(p)
    /\ LET r == Rows(p) IN ~r.crashes /\ (r.placeholder \/ r.matched = {})

YieldsRecords(p) ==
    /\ ReachesRows(p)
    /\ LET r == Rows(p) IN ~r.crashes /\ ~r.placeholder /\ r.matched # {}

\* the record a matched row stands for
RowRecord(c, cells) ==
    LET e == RowEntry(c, cells)[1]
        n == ExtractName(c, cells)
    IN  [place  |-> clean_int(cell_text(c, cells, "pos")).value,
         number |-> e.number, team |-> e.team,
         name   |-> StrStrip(n.first \o <<" ">> \o n.last),
         car    |-> e.car,
         poles  |-> clean_int(cell_text(c, cells, "poles")).value,
         wins   |-> clean_int(cell_text(c, cells, "wins")).value,
         points |-> clean_int(cell_text(c, cells, "pts")).value,
         odds   |-> [bet365 |-> "0", sportsbet |-> "0", dabble |-> "0"]]

RECURSIVE MatchedRecords(_, _)
MatchedRecords(c, rows) ==
    IF rows = <<>> THEN <<>>
    ELSE (IF RowMatched(c, rows[1]) THEN <<RowRecord(c, rows[1])>> ELSE <<>>)
         \o MatchedRecords(c, Tail(rows))

FallbackLogged == \E k \in 1..Len(log) : log[k] = <<"INFO", "building_preseason">>

FetchFailed == resp # None /\ resp[1] # "ok"

ParseFailed == page # None /\ ~ReachesRows(page[1])

\* the states and the steps of a run that has failed
C1_FailedState ==
    (FetchFailed \/ ParseFailed) =>
        /\ artifact = None
        /\ pc \in {"PARSE", "RETURNED", "FAILED"}
        /\ pc = "RETURNED" => result = None
        /\ pc = "FAILED" => exitCode # None /\ exitCode[1] # 0
        /\ pc # "FAILED" => exitCode = None

C1_FailedStep ==
    (FetchFailed \/ ParseFailed) =>
        /\ pc = "PARSE" => pc' = "RETURNED"
        /\ pc = "RETURNED" => pc' = "FAILED"

\* C1: a run whose fetch fails (transport error, timeout, error status) or
\* whose parse fails structurally (no table, no thead or tbody, no header
\* row, or one of pos / driver / pts not detected) never writes the output
\* file, whatever the table body holds, and goes from the failure to FAILED
\* with a non-zero exit code.
C1_FailureIsFatal == []C1_FailedState /\ [][C1_FailedStep]_vars

C1_Witness ==
    /\ pc = "FAILED"
    /\ page # None
    /\ StructureOk(page[1])
    /\ page[1].header = HeaderNoPts
    /\ \E k \in 1..Len(page[1].rows) : page[1].rows[k] = RowMax

\* the states and the steps of a run whose parse came back empty
C2_EmptyState ==
    (page # None /\ YieldsZero(page[1])) =>
        /\ pc \notin {"FAILED", "CRASHED"}
        /\ pc \in {"RETURNED", "FALLBACK"} => result = Some(<<>>)
        /\ pc = "SERIALIZE" => FallbackLogged /\ result = Some(build_preseason_standings)
        /\ artifact # None => pc = "DONE"
        /\ pc = "DONE" =>
              /\ artifact = Some(build_preseason_standings)
              /\ Len(artifact[1]) = Len(DRIVER_ROSTER)
              /\ exitCode = Some(0)
        /\ pc # "DONE" => exitCode = None

C2_EmptyStep ==
    (page # None /\ YieldsZero(page[1])) =>
        /\ pc = "RETURNED" => pc' = "FALLBACK"
        /\ pc = "FALLBACK" => pc' = "SERIALIZE"
        /\ pc = "SERIALIZE" => pc' = "DONE"

\* C2: when fetch and parse succeed and no record is interpreted (no body
\* rows, rows without cells, every row unmatched, or the single-cell
\* placeholder met), the run goes from the empty result through the fallback
\* to the write: the file holds exactly the fallback sequence, one record per
\* roster entry, and the exit code is 0.
C2_EmptyGoesToFallback == []C2_EmptyState /\ [][C2_EmptyStep]_vars

C2_Witness ==
    /\ pc = "DONE"
    /\ page # None
    /\ YieldsZero(page[1])
    /\ Len(page[1].rows) >= 2
    /\ \A k \in 1..Len(page[1].rows) : RowUnmatched(PageCols(page[1]), page[1].rows[k])
    /\ artifact = Some(build_preseason_standings)

\* C3: when the parse yields one or more records, the run writes them
\* directly: the fallback is not invoked, and the file holds exactly the
\* records of the matched rows in table row order (not sorted by place).
C3_LiveRowsWritten ==
    (page # None /\ YieldsRecords(page[1])) =>
        /\ pc \notin {"FAILED", "CRASHED", "FALLBACK"}
        /\ ~FallbackLogged
        /\ artifact # None => pc = "DONE"
        /\ pc = "DONE" =>
              /\ artifact = Some(MatchedRecords(PageCols(page[1]), page[1].rows))
              /\ exitCode = Some(0)

C3_Witness ==
    /\ pc = "DONE"
    /\ page # None
    /\ YieldsRecords(page[1])
    /\ Len(artifact[1]) >= 2
    /\ artifact[1][1].place > artifact[1][2].place
    /\ \E k \in 1..Len(page[1].rows) : RowUnmatched(PageCols(page[1]), page[1].rows[k])

C5_KeysAreMentionedFields ==
    pc = "detect_columns_returned" => DOMAIN ret = MentionedFields(arg)

\* C5 (amended): the keys of detect_columns are exactly the fields that are
\* the first one, in the priority order pos, driver, nationality, team, pts,
\* wins, poles, of which some header label holds a keyword, letter case
\* aside: a label counts for one field only.
C5_KeysAreFirstMentionedFields ==
    pc = "detect_columns_returned" =>
        /\ DOMAIN ret = DetectedFields(arg)
        /\ \A f \in DOMAIN ret : ret[f] \in 0..(Len(arg) - 1)

C5_Witness ==
    /\ pc = "detect_columns_returned"
    /\ Len(arg) >= 2
    /\ \E i \in 1..Len(arg) : Mentions(arg[i], "pos") /\ Mentions(arg[i], "poles")
    /\ arg[1] = <<"P","t","s">>
    /\ DOMAIN ret = {"pts", "pos"}

\* C6 (as claimed): a row of two or more cells whose name matches no roster
\* entry adds no record and does not abort the run; interpretation goes on
\* with the next row and the records of the other rows are unaffected.
C6_UnmatchedRowIsSkipped ==
    [][(/\ pc = "ROWS"
        /\ rowIdx <= Len(page[1].rows)
        /\ RowUnmatched(cols, page[1].rows[rowIdx]))
       => (pc' = "ROWS" /\ rowIdx' = rowIdx + 1 /\ standings' = standings)]_vars

\* C7: build_preseason_standings gives one record per roster entry, in
\* roster order: record i has place i, zero points, wins and poles, the
\* number, team and car of entry i, the name "first last", and the fixed odds.
C7_FallbackRecords ==
    (pc = "SERIALIZE" /\ FallbackLogged) =>
        /\ Len(result[1]) = Len(DRIVER_ROSTER)
        /\ \A i \in 1..Len(DRIVER_ROSTER) :
              /\ result[1][i].place = i
              /\ result[1][i].points = 0
              /\ result[1][i].wins = 0
              /\ result[1][i].poles = 0
              /\ result[1][i].number = DRIVER_ROSTER[i].number
              /\ result[1][i].team = DRIVER_ROSTER[i].team
              /\ result[1][i].car = DRIVER_ROSTER[i].car
              /\ result[1][i].name =
                    DRIVER_ROSTER[i].first \o <<" ">> \o DRIVER_ROSTER[i].last
              /\ result[1][i].odds = [bet365 |-> "0", sportsbet |-> "0", dabble |-> "0"]

C7_Witness ==
    /\ pc = "SERIALIZE"
    /\ FallbackLogged
    /\ result[1][19].name = <<"M","a","x"," ","V","e","r","s","t","a","p","p","e","n">>

\* C8 (as claimed): clean_int returns a non-negative integer for every
\* string, clean_int(str(clean_int(x))) = clean_int(x), clean_int("") = 0
\* and clean_int("P12.") = 12.
C8_CleanIntTotalIdempotent ==
    pc \in {"clean_int_returned", "clean_int_raised", "clean_int_again"} =>
        /\ ~ret[1].raised
        /\ ret[1].value >= 0
        /\ arg[1] = <<>> => ret[1].value = 0
        /\ arg[1] = <<"P", "1", "2", ".">> => ret[1].value = 12
        /\ pc = "clean_int_again" => ret[2] = ret[1]

\* C9: lookup_driver finds a roster entry from any variant of its first and
\* last name that differs in letter case and surrounding whitespace only,
\* and finds nothing for any other pair of name parts.
C9_LookupIgnoresCaseAndPadding ==
    pc = "lookup_driver_returned" =>
        IF /\ arg.i = arg.j
           /\ arg.first \in NameVariants(DRIVER_ROSTER[arg.i].first)
           /\ arg.last \in NameVariants(DRIVER_ROSTER[arg.i].last)
        THEN ret = Some(DRIVER_ROSTER[arg.i])
        ELSE ret = None

C9_Witness ==
    /\ pc = "lookup_driver_returned"
    /\ arg.first = <<" ", "M", "A", "X", " ">>
    /\ arg.last = <<" ", "v", "e", "r", "s", "t", "a", "p", "p", "e", "n", " ">>
    /\ ret # None
    /\ ret[1].number = 1

\* the roster entries whose key is the lower-cased name of a record
EntriesNamed(name) == {i \in 1..Len(DRIVER_ROSTER) : RosterKeys[i] = StrLower(name)}

RecordFromOneEntry(r) ==
    /\ Cardinality(EntriesNamed(r.name)) = 1
    /\ \A i \in EntriesNamed(r.name) :
          /\ r.number = DRIVER_ROSTER[i].number
          /\ r.team = DRIVER_ROSTER[i].team
          /\ r.car = DRIVER_ROSTER[i].car

\* C10 (as claimed): no two records of the written file derive from the same
\* roster entry (none share a number), and the number, team and car of each
\* come from the one entry whose key matches the record's scraped name.
C10_OneToOne ==
    artifact # None =>
        /\ \A m, n \in 1..Len(artifact[1]) :
              m # n => artifact[1][m].number # artifact[1][n].number
        /\ \A n \in 1..Len(artifact[1]) : RecordFromOneEntry(artifact[1][n])

\* C10 (amended): the number, team and car of every record of the written
\* file come from the one roster entry whose key matches the record's
\* scraped name; the relation is many-to-one, since a body that repeats a
\* driver yields two records of the same entry, with the same number.
C10_ManyToOne ==
    artifact # None =>
        \A n \in 1..Len(artifact[1]) : RecordFromOneEntry(artifact[1][n])

C10_Witness ==
    /\ artifact # None
    /\ Len(artifact[1]) >= 2
    /\ artifact[1][1].number = artifact[1][2].number
    /\ artifact[1][1].name # artifact[1][2].name

====
